---- MODULE Spec2Model ----
(***************************************************************************)
(* The "AI transformation chain" dashboard of src/app.py (lines 1-171):    *)
(* a Streamlit script that is re-executed from the top on every widget     *)
(* event and on every st.rerun().  The state that survives a script pass   *)
(* is the per-session st.session_state dictionary and the process-wide     *)
(* st.cache_data memo tables of the three stage functions.                 *)
(*                                                                         *)
(* One action of the model is one complete pass of the script for one      *)
(* session, triggered by one widget event or by a pending st.rerun().      *)
(*                                                                         *)
(* The museum dashboard of src/app.py (lines 174-455) is a second script   *)
(* with a session state of its own; it is modelled the same way and has    *)
(* its own specification, SpecMuseum.                                      *)
(*                                                                         *)
(* Python values are records [type, val]: None is of type "NoneType", a    *)
(* str carries its characters as a sequence of tokens, so that truthiness, *)
(* startswith and len are computed as Python computes them.                *)
(***************************************************************************)
EXTENDS Integers, Sequences, FiniteSets, TLC

\* ------------------------------------------------------------------ bounds
\* Cap on the executions of stage-function bodies (provider invocations), all
\* stages and sessions together.
MaxCalls == 3

\* ------------------------------------------------------------ Python values
None == [type |-> "NoneType", val |-> <<>>]

Str(chars) == [type |-> "str", val |-> chars]

\* bool(v) for None and str
Truthy(v) == v.type = "str" /\ Len(v.val) > 0

\* v.startswith(prefix)
StartsWith(v, prefix) ==
    /\ v.type = "str"
    /\ Len(v.val) >= Len(prefix)
    /\ SubSeq(v.val, 1, Len(prefix)) = prefix

\* The three error-message prefixes of the stage functions.
TextErrPrefix == <<"text-generation-error">>
ImageErrPrefix == <<"image-generation-error">>
AnalyzeErrPrefix == <<"image-analysis-error">>

\* --------------------------------------------------------- widgets, inputs
\* The default of the topic field (line 90) and the options of the role
\* select box (line 91), in English.
DefaultTopic == Str(<<"lonely", "future", "city">>)

RoleOptions == <<"AI poet", "AI storyteller", "AI philosopher">>

\* What the users type or select: the topic field is left as it is or
\* cleared, the role is the first or the last option.
Topics == {DefaultTopic, Str(<<>>)}
Roles == {RoleOptions[1], RoleOptions[3]}

Sessions == {"s1", "s2"}

\* Responses of the three external capabilities: content, or an exception
\* (which is also what every call gives when the client of line 15 is None).
\* The content of a chat completion may be empty, the url of an image absent.
Raise == [kind |-> "raise", content |-> None]
Ok(v) == [kind |-> "ok", content |-> v]

TextResponses == {Ok(Str(<<"neon", "rain">>)), Ok(Str(<<>>)), Raise}
ImageResponses == {Ok(Str(<<"https://img/1">>)), Ok(None), Raise}
VisionResponses == {Ok(Str(<<"moody", "blue", "cityscape">>)), Ok(Str(<<>>)), Raise}

Responses(k) ==
    CASE k = 1 -> TextResponses
      [] k = 2 -> ImageResponses
      [] k = 3 -> VisionResponses

\* --------------------------------------------------------- stage functions
\* Bodies of the three functions under st.cache_data: the try/except turns
\* an exception of the provider into an error string that is RETURNED.
generate_start_text(resp) ==
    IF resp.kind = "ok" THEN resp.content ELSE Str(TextErrPrefix \o <<"e">>)

generate_image_from_text(resp) ==
    IF resp.kind = "ok" THEN resp.content ELSE Str(ImageErrPrefix \o <<"e">>)

analyze_image_to_text(resp) ==
    IF resp.kind = "ok" THEN resp.content ELSE Str(AnalyzeErrPrefix \o <<"e">>)

StageBody(k, resp) ==
    CASE k = 1 -> generate_start_text(resp)
      [] k = 2 -> generate_image_from_text(resp)
      [] k = 3 -> analyze_image_to_text(resp)

VARIABLES
    ss,       \* ss[s]: st.session_state of session s
    rerun,    \* rerun[s]: st.rerun() was called, the next pass is pending
    cache,    \* cache[k]: the st.cache_data table of stage function k
    calls,    \* calls[k]: executions of the body of stage function k
    trace,    \* trace[s]: stage-function calls of the current run, in order
    stale,    \* stale[s]: the calls that were cached when s last pressed reset
    mu        \* the session of the museum dashboard (lines 174-455)

chain_vars == <<ss, rerun, cache, calls, trace, stale>>

vars == <<ss, rerun, cache, calls, trace, stale, mu>>

\* ----------------------------------------------------------- session state
AppKeys == {"step", "start_text", "image_url", "final_text",
            "user_topic", "start_role"}
WidgetKeys == {"topic_input", "role_select"}

\* A session_state with no key; the value of an absent key is irrelevant
\* and kept canonical.
EmptySession ==
    [keys |-> {}, step |-> 0, start_text |-> None, image_url |-> None,
     final_text |-> None, user_topic |-> Str(<<>>), start_role |-> RoleOptions[1],
     topic_input |-> DefaultTopic, role_select |-> RoleOptions[1]]

\* lines 18-24
InitBlock(st) ==
    IF "step" \in st.keys THEN st
    ELSE [st EXCEPT !.keys = @ \cup AppKeys,
                    !.step = 0,
                    !.start_text = None,
                    !.image_url = None,
                    !.final_text = None,
                    !.user_topic = Str(<<>>),
                    !.start_role = RoleOptions[1]]

\* lines 90-91: a widget whose key is not in session_state is created with
\* its default value; its return value is stored in user_topic / start_role.
SidebarInputs(st) ==
    LET topic == IF "topic_input" \in st.keys THEN st.topic_input ELSE DefaultTopic
        role == IF "role_select" \in st.keys THEN st.role_select ELSE RoleOptions[1]
    IN [st EXCEPT !.keys = @ \cup WidgetKeys \cup {"user_topic", "start_role"},
                  !.topic_input = topic,
                  !.role_select = role,
                  !.user_topic = topic,
                  !.start_role = role]

\* StartHandler without line 98: the final text of the prior run survives.
StartHandlerKeepsFinal(st) ==
    [st EXCEPT !.step = 1,
               !.start_text = None,
               !.image_url = None]

\* StartHandler without line 97: the image of the prior run survives.
StartHandlerKeepsImage(st) ==
    [st EXCEPT !.step = 1,
               !.start_text = None,
               !.final_text = None]

\* lines 95-98
StartHandler(st) ==
    [st EXCEPT !.step = 1,
               !.start_text = None,
               !.image_url = None,
               !.final_text = None]

\* lines 101-103: every key but user_topic and start_role is deleted
ResetHandler(st) ==
    [EmptySession EXCEPT !.keys = st.keys \cap {"user_topic", "start_role"},
                         !.user_topic = st.user_topic,
                         !.start_role = st.start_role]

\* line 100: the reset button is drawn only when step > 0
ResetOffered(st) == st.step > 0

\* line 115
Col1Runs(st) == st.step = 1

\* lines 116-117
Stage1Store(st, v) == [st EXCEPT !.start_text = v, !.step = 2]

\* lines 120, 123: the "Step 2" button is drawn
Step2Offered(st) == Truthy(st.start_text) /\ st.step = 2

\* Step2Button going to step 5 instead of step 3.
Step2ButtonSkips(st) == [st EXCEPT !.step = 5]

\* line 124
Step2Button(st) == [st EXCEPT !.step = 3]

\* line 130
Col2Runs(st) == st.step = 3

\* Stage2Next without the startswith test of line 132.
Stage2NextUnchecked(url) ==
    IF Truthy(url) THEN 4 ELSE 99

\* lines 132-135
Stage2Next(url) ==
    IF Truthy(url) /\ ~StartsWith(url, ImageErrPrefix) THEN 4 ELSE 99

\* lines 131-135
Stage2Store(st, v) == [st EXCEPT !.image_url = v, !.step = Stage2Next(v)]

\* lines 138, 140, 146: the "Step 3" button is drawn (st.image of line 145
\* taken not to raise)
Step3Offered(st) ==
    /\ Truthy(st.image_url)
    /\ ~StartsWith(st.image_url, ImageErrPrefix)
    /\ st.step = 4

\* line 147
Step3Button(st) == [st EXCEPT !.step = 5]

\* Col3Runs with >= for ==.
Col3RunsFrom5(st) == st.step >= 5

\* line 155
Col3Runs(st) == st.step = 5

\* Stage3Store going back to step 4 instead of on to step 6.
Stage3StoreBack(st, v) == [st EXCEPT !.final_text = v, !.step = 4]

\* lines 156-157
Stage3Store(st, v) == [st EXCEPT !.final_text = v, !.step = 6]

\* len(v): defined for a str, a TypeError for None
PyLen(v) ==
    IF v.type = "str" THEN [error |-> FALSE, n |-> Len(v.val)]
    ELSE [error |-> TRUE, n |-> 0]

\* lines 160-170: the length comparison, run by a pass that reaches line 160
\* with a non-empty final_text
Stage4(st) ==
    IF Truthy(st.final_text)
    THEN [ran |-> TRUE,
          error |-> PyLen(st.start_text).error \/ PyLen(st.final_text).error,
          len_start |-> PyLen(st.start_text).n,
          len_final |-> PyLen(st.final_text).n]
    ELSE [ran |-> FALSE, error |-> FALSE, len_start |-> 0, len_final |-> 0]

\* ------------------------------------------------------------ st.cache_data
\* CacheHit of an undecorated function: every call runs the body.
CacheNeverHit(k, args) == FALSE

\* The memo table of a decorated function is keyed by the arguments only and
\* is shared by every session of the server process.
CacheHit(k, args) == \E e \in cache[k] : e.args = args

CacheGet(k, args) == CHOOSE e \in cache[k] : e.args = args

\* A call of stage function k by session s; resp is what the provider would
\* answer if the body runs.
CachedCall(k, args, resp, s) ==
    IF CacheHit(k, args)
    THEN [val |-> CacheGet(k, args).val, hit |-> TRUE,
          owner |-> CacheGet(k, args).owner,
          cache |-> cache, calls |-> calls]
    ELSE [val |-> StageBody(k, resp), hit |-> FALSE, owner |-> s,
          cache |-> [cache EXCEPT ![k] = @ \cup
                       {[args |-> args, val |-> StageBody(k, resp), owner |-> s]}],
          calls |-> [calls EXCEPT ![k] = @ + 1]]

\* The calls the memo tables hold an answer for.
Cached == {<<k, e.args>> : k \in {1}, e \in cache[1]}
          \cup {<<k, e.args>> : k \in {2}, e \in cache[2]}
          \cup {<<k, e.args>> : k \in {3}, e \in cache[3]}

\* The entry the call leaves in trace[s]: hit tells that the body did not
\* run, owner the session whose call ran it, old that the answer was
\* already cached when s last pressed reset.
TraceEntry(s, k, args, r) ==
    [stage |-> k, result |-> r.val, hit |-> r.hit,
     owner |-> r.owner, old |-> r.hit /\ <<k, args>> \in stale[s]]

\* ------------------------------------------------------------- script pass
\* Which stage function the pass calls (0: none), in script order.
StageOf(st, clicked) ==
    IF ResetOffered(st) /\ clicked = "reset" THEN 0
    ELSE IF Col1Runs(st) THEN 1
    ELSE IF Step2Offered(st) /\ clicked = "step2" THEN 0
    ELSE IF Col2Runs(st) THEN 2
    ELSE IF Step3Offered(st) /\ clicked = "step3" THEN 0
    ELSE IF Col3Runs(st) THEN 3
    ELSE 0

StageArgs(st, k) ==
    CASE k = 1 -> <<st.user_topic, st.start_role>>
      [] k = 2 -> <<st.start_text>>
      [] k = 3 -> <<st.image_url>>

StageStore(st, k, v) ==
    CASE k = 1 -> Stage1Store(st, v)
      [] k = 2 -> Stage2Store(st, v)
      [] k = 3 -> Stage3Store(st, v)

\* The state at line 100, after the session-state initialisation, the
\* sidebar inputs and the start button.
AtSidebarEnd(st, clicked) ==
    IF clicked = "start"
    THEN StartHandler(SidebarInputs(InitBlock(st)))
    ELSE SidebarInputs(InitBlock(st))

\* One pass of the script (lines 18-171) for session s: st is the session
\* state with the widget values of the triggering event, clicked the button
\* of the event ("none" for an edit or a rerun), ev the name of the event.
\* When the body of a stage function runs, the provider's answer is any of
\* its possible responses.
Pass(s, st, clicked, ev) ==
    LET c == AtSidebarEnd(st, clicked)
        k == StageOf(c, clicked)
        tr == IF clicked = "start" THEN <<>> ELSE trace[s]
    IN /\ UNCHANGED mu
       /\ IF ResetOffered(c) /\ clicked = "reset"
          THEN /\ ss' = [ss EXCEPT ![s] = ResetHandler(c)]
               /\ rerun' = [rerun EXCEPT ![s] = TRUE]
               /\ trace' = [trace EXCEPT ![s] = <<>>]
               /\ stale' = [stale EXCEPT ![s] = Cached]
               /\ UNCHANGED <<cache, calls>>
          ELSE IF k > 0
          THEN \E resp \in (IF CacheHit(k, StageArgs(c, k)) THEN {Raise} ELSE Responses(k)) :
               LET r == CachedCall(k, StageArgs(c, k), resp, s)
               IN /\ r.hit \/ calls[1] + calls[2] + calls[3] < MaxCalls
                  /\ ss' = [ss EXCEPT ![s] = StageStore(c, k, r.val)]
                  /\ rerun' = [rerun EXCEPT ![s] = TRUE]
                  /\ cache' = r.cache
                  /\ calls' = r.calls
                  /\ trace' = [trace EXCEPT ![s] =
                                 Append(tr, TraceEntry(s, k, StageArgs(c, k), r))]
                  /\ UNCHANGED stale
          ELSE IF Step2Offered(c) /\ clicked = "step2"
          THEN /\ ss' = [ss EXCEPT ![s] = Step2Button(c)]
               /\ rerun' = [rerun EXCEPT ![s] = TRUE]
               /\ trace' = [trace EXCEPT ![s] = tr]
               /\ UNCHANGED <<cache, calls, stale>>
          ELSE IF Step3Offered(c) /\ clicked = "step3"
          THEN /\ ss' = [ss EXCEPT ![s] = Step3Button(c)]
               /\ rerun' = [rerun EXCEPT ![s] = TRUE]
               /\ trace' = [trace EXCEPT ![s] = tr]
               /\ UNCHANGED <<cache, calls, stale>>
          ELSE /\ ss' = [ss EXCEPT ![s] = c]
               /\ rerun' = [rerun EXCEPT ![s] = FALSE]
               /\ trace' = [trace EXCEPT ![s] = tr]
               /\ UNCHANGED <<cache, calls, stale>>

\* ------------------------------------------------------------------ events
\* The user types a topic (line 90) and the script runs.
EditTopic(s, t) ==
    /\ ~rerun[s]
    /\ t /= ss[s].topic_input
    /\ Pass(s, [ss[s] EXCEPT !.topic_input = t], "none", "edit_topic")

\* The user selects a role (line 91) and the script runs.
EditRole(s, r) ==
    /\ ~rerun[s]
    /\ r /= ss[s].role_select
    /\ Pass(s, [ss[s] EXCEPT !.role_select = r], "none", "edit_role")

\* The start button (line 93), always drawn.
ClickStart(s) ==
    /\ ~rerun[s]
    /\ Pass(s, ss[s], "start", "start")

\* The reset button (line 100), drawn by the last pass when step > 0.
ClickReset(s) ==
    /\ ~rerun[s]
    /\ ResetOffered(ss[s])
    /\ Pass(s, ss[s], "reset", "reset")

\* The "Step 2" button (line 123), when the last pass drew it.
ClickStep2(s) ==
    /\ ~rerun[s]
    /\ Step2Offered(ss[s])
    /\ Pass(s, ss[s], "step2", "step2")

\* The "Step 3" button (line 146), when the last pass drew it.
ClickStep3(s) ==
    /\ ~rerun[s]
    /\ Step3Offered(ss[s])
    /\ Pass(s, ss[s], "step3", "step3")

\* The pass that st.rerun() asked for: no button is pressed.
Rerun(s) ==
    /\ rerun[s]
    /\ Pass(s, ss[s], "none", "rerun")

\* ------------------------------------------------------- museum dashboard
\* The second script of src/app.py (lines 174-455), one session.  Its
\* session_state is mu: present tells that the key 'step' exists, results is
\* search_results_details (None and {} are both the empty set: only its
\* truth value and its items are read), analyzed the keys of
\* analyzed_artworks in insertion order, df the rows of df_palette; rerun
\* tells that st.rerun() was called, error which exception ended the last
\* pass.

\* Cap on the rows of df_palette.
MaxRows == 15

\* The object ids the collection API answers with.
ArtIds == {1, 2}

\* Answers of the search: the total it reports and the objects, among the
\* first ten ids, whose details have an image (lines 304-311).  A failed
\* request is the answer (0, []) (line 209).
SearchResponses == [total : {0, 7}, ids : SUBSET ArtIds]

\* lines 230-250: the five rows of an artwork, one per selected colour
simulate_palette_data(id) ==
    [i \in 1..5 |-> [Artwork_ID |-> id, Color_HEX |-> i]]

\* pd.concat of the palettes of a list of artworks
RECURSIVE ConcatPalettes(_)
ConcatPalettes(ids) ==
    IF ids = <<>> THEN <<>>
    ELSE simulate_palette_data(Head(ids)) \o ConcatPalettes(Tail(ids))

\* The list without id.
RECURSIVE Without(_, _)
Without(ids, id) ==
    IF ids = <<>> THEN <<>>
    ELSE IF Head(ids) = id THEN Without(Tail(ids), id)
    ELSE <<Head(ids)>> \o Without(Tail(ids), id)

InList(ids, id) == \E i \in 1..Len(ids) : ids[i] = id

\* A session_state with no key.
MuseumEmpty ==
    [present |-> FALSE, step |-> 0, results |-> {}, analyzed |-> <<>>,
     df |-> <<>>, rerun |-> FALSE, error |-> "none"]

\* lines 186-190
MuseumInitBlock(m) ==
    IF m.present THEN m
    ELSE [m EXCEPT !.present = TRUE, !.step = 0, !.results = {},
                   !.analyzed = <<>>, !.df = <<>>]

\* lines 301-318: the search button with a non-empty query
SearchHandler(m, resp) ==
    IF resp.total > 0
    THEN [m EXCEPT !.results = resp.ids, !.step = 1, !.rerun = TRUE]
    ELSE [m EXCEPT !.step = 0, !.rerun = TRUE]

\* lines 333-340: the delete button of artwork id.  pd.concat of an empty
\* list raises ValueError: the pass ends there, after the del of line 334.
DeleteHandler(m, id) ==
    LET rest == Without(m.analyzed, id)
    IN IF rest = <<>>
       THEN [m EXCEPT !.analyzed = rest, !.error = "ValueError"]
       ELSE [m EXCEPT !.analyzed = rest, !.df = ConcatPalettes(rest),
                      !.rerun = TRUE]

\* lines 344-347: every key is deleted
MuseumResetHandler(m) == [MuseumEmpty EXCEPT !.rerun = TRUE]

\* lines 353, 367-370: the add button of artwork id is drawn
AddOffered(m, id) ==
    /\ m.step >= 1
    /\ m.results /= {}
    /\ id \in m.results
    /\ ~InList(m.analyzed, id)

\* lines 371-378
AddHandler(m, id) ==
    [m EXCEPT !.analyzed = Append(@, id),
              !.df = @ \o simulate_palette_data(id),
              !.step = 2,
              !.rerun = TRUE]

\* line 386: the visualisation section runs
VizRuns(m) == m.step >= 2 /\ m.df /= <<>>

\* lines 386-401: with no analysed artwork the select box has no option and
\* returns None, and artwork_options[None] raises KeyError.
VizSection(m) ==
    IF ~VizRuns(m) THEN [m EXCEPT !.error = "none"]
    ELSE IF m.analyzed = <<>> THEN [m EXCEPT !.error = "KeyError"]
    ELSE [m EXCEPT !.error = "none"]

\* One pass of the script: click is the pressed button, arg its artwork id
\* or the answer of the search.
MuseumPass(click, arg) ==
    LET m == [MuseumInitBlock(mu) EXCEPT !.rerun = FALSE, !.error = "none"]
    IN /\ UNCHANGED chain_vars
       /\ mu' = CASE click = "search" -> SearchHandler(m, arg)
                  [] click = "delete" -> DeleteHandler(m, arg)
                  [] click = "reset" -> MuseumResetHandler(m)
                  [] click = "add" -> AddHandler(m, arg)
                  [] OTHER -> VizSection(m)

\* The search button (line 301) with a query typed in.
MuseumSearch(resp) ==
    /\ ~mu.rerun
    /\ MuseumPass("search", resp)

\* The search field is edited, or the search button pressed with an empty
\* query (line 320): the pass presses nothing.
MuseumRefresh ==
    /\ ~mu.rerun
    /\ MuseumPass("none", 0)

\* A delete button (line 333) of the analysis list.
MuseumDelete(id) ==
    /\ ~mu.rerun
    /\ InList(mu.analyzed, id)
    /\ MuseumPass("delete", id)

\* The reset button (line 344), not drawn by a pass that ended in the
\* sidebar.
MuseumReset ==
    /\ ~mu.rerun
    /\ mu.error /= "ValueError"
    /\ MuseumPass("reset", 0)

\* An add button (line 370) of the search results.
MuseumAdd(id) ==
    /\ ~mu.rerun
    /\ mu.error /= "ValueError"
    /\ AddOffered(mu, id)
    /\ Len(mu.df) + 5 <= MaxRows
    /\ MuseumPass("add", id)

\* The pass that st.rerun() asked for.
MuseumRerun ==
    /\ mu.rerun
    /\ MuseumPass("none", 0)

\* --------------------------------------------------------- specifications
\* Every session has gone through its first pass (no event, nothing cached).
Init ==
    /\ ss = [s \in Sessions |-> SidebarInputs(InitBlock(EmptySession))]
    /\ rerun = [s \in Sessions |-> FALSE]
    /\ cache = [k \in 1..3 |-> {}]
    /\ calls = [k \in 1..3 |-> 0]
    /\ trace = [s \in Sessions |-> <<>>]
    /\ stale = [s \in Sessions |-> {}]
    /\ mu = MuseumInitBlock(MuseumEmpty)

\* One step of the users in U, who type topics of T and select roles of R.
Step(U, T, R) ==
    \E s \in U :
        \/ \E t \in T : EditTopic(s, t)
        \/ \E r \in R : EditRole(s, r)
        \/ ClickStart(s)
        \/ ClickReset(s)
        \/ ClickStep2(s)
        \/ ClickStep3(s)
        \/ Rerun(s)

\* One user.
Next == Step({"s1"}, Topics, Roles)

Spec == Init /\ [][Next]_vars

\* Two users of the same server process, both keeping the default inputs.
NextShared ==
    \E s \in Sessions :
        \/ ClickStart(s)
        \/ ClickStep2(s)
        \/ ClickStep3(s)
        \/ Rerun(s)

SpecShared == Init /\ [][NextShared]_vars

\* The museum dashboard.
NextMuseum ==
    \/ \E resp \in SearchResponses : MuseumSearch(resp)
    \/ MuseumRefresh
    \/ \E id \in ArtIds : MuseumDelete(id)
    \/ MuseumReset
    \/ \E id \in ArtIds : MuseumAdd(id)
    \/ MuseumRerun

SpecMuseum == Init /\ [][NextMuseum]_vars

\* ------------------------------------------------------------------ claims
\* The stages called in a run, in order.
Stages(tr) == [i \in 1..Len(tr) |-> tr[i].stage]

\* The result of stage k is the error message of its function.
IsFailure(k, v) ==
    CASE k = 1 -> StartsWith(v, TextErrPrefix)
      [] k = 2 -> StartsWith(v, ImageErrPrefix)
      [] k = 3 -> StartsWith(v, AnalyzeErrPrefix)

\* The result of stage k is a non-empty artifact.
IsSuccess(k, v) == Truthy(v) /\ ~IsFailure(k, v)

\* The three stage results of a session.
Results(st) == <<st.start_text, st.image_url, st.final_text>>

\* C1: a stage function is called only on a successful result of the stage
\* before it, and a failed stage leaves the results of the later stages None.
C1_StageOnlyAfterSuccess ==
    \A s \in Sessions :
        /\ \A i \in 1..Len(trace[s]) :
             trace[s][i].stage > 1 =>
                /\ i > 1
                /\ trace[s][i - 1].stage = trace[s][i].stage - 1
                /\ ~IsFailure(trace[s][i - 1].stage, trace[s][i - 1].result)
        /\ IsFailure(1, ss[s].start_text) =>
                ss[s].image_url = None /\ ss[s].final_text = None
        /\ IsFailure(2, ss[s].image_url) => ss[s].final_text = None

\* C2: a failed stage call, of any stage, leaves the run at step 99 and is
\* the last stage call of its run.
C2_FailureHalts ==
    \A s \in Sessions :
        \A i \in 1..Len(trace[s]) :
            IsFailure(trace[s][i].stage, trace[s][i].result) =>
                ss[s].step = 99 /\ Len(trace[s]) = i

\* C3: when image generation (stage 2) fails, the run is at step 99, stage 3
\* is not called in that run, final_text stays None and start_text keeps the
\* non-empty result of stage 1.
C3_Stage2FailureFreezes ==
    \A s \in Sessions :
        \A i \in 1..Len(trace[s]) :
            (trace[s][i].stage = 2 /\ IsFailure(2, trace[s][i].result)) =>
                /\ ss[s].step = 99
                /\ Len(trace[s]) = i
                /\ ss[s].final_text = None
                /\ i = 2
                /\ ss[s].start_text = trace[s][1].result
                /\ Truthy(ss[s].start_text)

\* C3 witness: a settled run whose image generation failed.
C3_Witness ==
    \E s \in Sessions :
        /\ ~rerun[s]
        /\ Len(trace[s]) = 2
        /\ IsFailure(2, trace[s][2].result)
        /\ ss[s].image_url = trace[s][2].result

\* C4: the stage functions of a run are called in the order 1, 2, 3, each
\* once, the step telling how far the run is; and a run whose three calls
\* all returned a non-empty artifact is at step 6 with the three artifacts
\* stored.
C4_SuccessfulRunCompletes ==
    \A s \in Sessions :
        LET tr == trace[s]
            ok(i) == IsSuccess(tr[i].stage, tr[i].result)
        IN /\ ss[s].step \in {2, 3} => Stages(tr) = <<1>>
           /\ ss[s].step \in {4, 5, 99} => Stages(tr) = <<1, 2>>
           /\ ss[s].step = 6 => Stages(tr) = <<1, 2, 3>>
           /\ (Len(tr) = 1 /\ ok(1)) => ss[s].step \in {2, 3}
           /\ (Len(tr) = 2 /\ ok(1) /\ ok(2)) => ss[s].step \in {4, 5}
           /\ (Len(tr) = 3 /\ ok(1) /\ ok(2) /\ ok(3)) =>
                 /\ ss[s].step = 6
                 /\ Results(ss[s]) = <<tr[1].result, tr[2].result, tr[3].result>>
                 /\ \A i \in 1..3 : Truthy(Results(ss[s])[i])

\* C4 witness: a settled, complete run with three artifacts, started with
\* an empty topic.
C4_Witness ==
    \E s \in Sessions :
        /\ ~rerun[s]
        /\ ss[s].step = 6
        /\ \A i \in 1..3 : IsSuccess(i, Results(ss[s])[i])
        /\ \A e \in cache[1] : e.args[1] = Str(<<>>)

ResultsKept(s) ==
    \A i \in 1..3 :
        Results(ss[s])[i] /= None => Results(ss'[s])[i] = Results(ss[s])[i]

C6_ResetClearsCache ==
    \A s \in Sessions : \A i \in 1..Len(trace[s]) : ~trace[s][i].old

\* C7: at step 0, 6 or 99, a pass that is not a start or a reset calls no
\* stage function and leaves step and the three results as they are.
C7_InvalidStateGuard ==
    [][\A s \in Sessions :
         (ss[s].step \in {0, 6, 99} /\ ~ClickStart(s) /\ ~ClickReset(s)) =>
            /\ trace'[s] = trace[s]
            /\ ss'[s].step = ss[s].step
            /\ Results(ss'[s]) = Results(ss[s])]_vars

\* C7 witness: a topic-edit pass has run at step 0 after a reset (a reset
\* puts the default topic back, so the empty topic was typed after it),
\* while the cache still holds the results of the run that was reset.
C7_Witness ==
    \E s \in Sessions :
        /\ ~rerun[s]
        /\ "step" \in ss[s].keys
        /\ ss[s].step = 0
        /\ ss[s].user_topic = Str(<<>>)
        /\ stale[s] /= {}

\* C8 as stated: the pass of a start press leaves the three results None
\* and calls no stage function.
C8_StartCallsNoStage ==
    [][\A s \in Sessions :
         ClickStart(s) =>
            /\ Results(ss'[s]) = <<None, None, None>>
            /\ trace'[s] = <<>>]_vars

\* C8 amended: the pass of a start press discards the results of the prior
\* run and calls the stage-1 function itself: it ends at step 2 with
\* start_text the result of that call, image_url and final_text None, and a
\* rerun requested.
C8_StartRunsStage1 ==
    [][\A s \in Sessions :
         ClickStart(s) =>
            /\ Stages(trace'[s]) = <<1>>
            /\ ss'[s].step = 2
            /\ Results(ss'[s]) = <<trace'[s][1].result, None, None>>
            /\ rerun'[s]]_vars

\* C8 witness: a start press has just been handled in a session whose
\* earlier run had reached stage 3.
C8_Witness ==
    \E s \in Sessions :
        /\ rerun[s]
        /\ ss[s].step = 2
        /\ Len(trace[s]) = 1
        /\ cache[3] /= {}

\* C9: a stage result that a session gets from the cache was computed by a
\* call of that session.
C9_NoSharingAcrossSessions ==
    \A s \in Sessions :
        \A i \in 1..Len(trace[s]) : trace[s][i].hit => trace[s][i].owner = s

\* The pass that completes a reset of session s.
ResetCompletes(s) == rerun[s] /\ "step" \notin ss[s].keys /\ Rerun(s)

\* C10: a reset press leaves step 0 and the three results None, and the
\* topic and role entered before it are still there when the reset has
\* completed.
C10_ResetKeepsInputs ==
    [][\A s \in Sessions :
         (ClickReset(s) \/ ResetCompletes(s)) =>
            /\ ss'[s].step = 0
            /\ Results(ss'[s]) = <<None, None, None>>
            /\ ss'[s].user_topic = ss[s].user_topic
            /\ ss'[s].start_role = ss[s].start_role]_vars

\* The moves of step that a pass other than a start or a reset may make.
ForwardMoves == {<<2, 3>>, <<3, 4>>, <<3, 99>>, <<4, 5>>, <<5, 6>>}

\* C11: between one start or reset and the next, step stays or moves one
\* place forward along 2, 3, 4 (or 99), 5, 6; the move out of 3 calls stage
\* 2 and the move out of 5 calls stage 3, no other move calls a stage; a
\* start press runs stage 1 and ends at step 2; no stage is called twice in
\* a run, and nothing but a start or a reset leaves step 6 or step 99.
C11_StrictlyForward ==
    /\ [][\A s \in Sessions :
            \/ ClickReset(s)
            \/ ClickStart(s) /\ ss'[s].step = 2 /\ Stages(trace'[s]) = <<1>>
            \/ /\ ~ClickStart(s)
               /\ ss'[s].step = ss[s].step
               /\ trace'[s] = trace[s]
            \/ /\ ~ClickStart(s)
               /\ <<ss[s].step, ss'[s].step>> \in ForwardMoves
               /\ Stages(trace'[s]) =
                     IF ss[s].step = 3 THEN Stages(trace[s]) \o <<2>>
                     ELSE IF ss[s].step = 5 THEN Stages(trace[s]) \o <<3>>
                     ELSE Stages(trace[s])]_vars
    /\ [](\A s \in Sessions :
            \A i, j \in 1..Len(trace[s]) :
                i < j => trace[s][i].stage < trace[s][j].stage)

\* C11 witness: the pass that called stage 3 has just moved the run from
\* step 5 to step 6.
C11_Witness ==
    \E s \in Sessions :
        /\ rerun[s]
        /\ ss[s].step = 6
        /\ Stages(trace[s]) = <<1, 2, 3>>

\* C12: while a run is present, no pass other than a start or a reset
\* changes user_topic or start_role.
C12_TopicImmutable ==
    [][\A s \in Sessions :
         (ss[s].step > 0 /\ ~ClickStart(s) /\ ~ClickReset(s)) =>
            /\ ss'[s].user_topic = ss[s].user_topic
            /\ ss'[s].start_role = ss[s].start_role]_vars

\* C13: a start press with an empty topic field creates no run and calls
\* no stage function.
C13_EmptyTopicRejected ==
    [][\A s \in Sessions :
         (ClickStart(s) /\ ~Truthy(ss[s].topic_input)) =>
            /\ ss'[s].step = ss[s].step
            /\ trace'[s] = trace[s]
            /\ calls' = calls]_vars

\* C14: the stage results are set in stage order (image_url only with a
\* start_text, final_text only with an image_url that is a usable image),
\* and whenever the length comparison runs it has two strings to measure.
C14_ResultsFormPrefix ==
    \A s \in Sessions :
        /\ ss[s].image_url /= None => Truthy(ss[s].start_text)
        /\ ss[s].final_text /= None => IsSuccess(2, ss[s].image_url)
        /\ Stage4(ss[s]).ran =>
              /\ ~Stage4(ss[s]).error
              /\ ss[s].start_text.type = "str"
              /\ ss[s].final_text.type = "str"

\* C14 witness: the length comparison has run on a complete run and found
\* a start text of 2 and a final text of 3 tokens.
C14_Witness ==
    \E s \in Sessions :
        /\ ~rerun[s]
        /\ Stage4(ss[s]) = [ran |-> TRUE, error |-> FALSE,
                            len_start |-> 2, len_final |-> 3]

\* C15: no stage call is answered from the cache with a failure.
C15_FailureNotCached ==
    \A s \in Sessions :
        \A i \in 1..Len(trace[s]) :
            trace[s][i].hit => ~IsFailure(trace[s][i].stage, trace[s][i].result)

\* C16: a settled page at step 2 offers the "Step 2" button and a settled
\* page at step 4 offers the "Step 3" button.
C16_NeverStuck ==
    \A s \in Sessions :
        ~rerun[s] =>
            /\ ss[s].step = 2 => Step2Offered(ss[s])
            /\ ss[s].step = 4 => Step3Offered(ss[s])

\* The rows of df_palette that belong to artwork id.
RowsOf(id) == {i \in 1..Len(mu.df) : mu.df[i].Artwork_ID = id}

\* C17: df_palette holds five rows for every analysed artwork and no row
\* for any other, no delete ends in an error, and the visualisation section
\* never runs on rows of an artwork that is not in analyzed_artworks.
C17_PaletteMatchesAnalysis ==
    /\ mu.error /= "ValueError"
    /\ (mu.present /\ ~mu.rerun) =>
          \A id \in ArtIds :
              Cardinality(RowsOf(id)) = IF InList(mu.analyzed, id) THEN 5 ELSE 0
    /\ (mu.present /\ VizRuns(mu)) =>
          \A i \in 1..Len(mu.df) : InList(mu.analyzed, mu.df[i].Artwork_ID)

\* C18: while analyzed_artworks is not empty, step is at least 2.
C18_VisualisationStaysEnabled ==
    (mu.present /\ mu.analyzed /= <<>>) => mu.step >= 2

====
